---- MODULE Spec2Model ----
(***************************************************************************)
(* Model of bot.py: the per-requester criteria map, the update dispatcher  *)
(* of the bot application, the parse command and button handlers, the      *)
(* orchestration run do_parsing, the collector parse_group and the         *)
(* spreadsheet writer.                                                     *)
(***************************************************************************)
EXTENDS Integers, Sequences, FiniteSets, TLC

VARIABLES user_data, update_queue, parser_client, reply, pc, run, pg_call, pg_result

vars == <<user_data, update_queue, parser_client, reply, pc, run, pg_call, pg_result>>

(***************************************************************************)
(* Program constants                                                       *)
(***************************************************************************)
MAX_GROUPS_PER_RUN == 10

ADJ_STEP == 1000

ADJ_FLOOR == 1000

ADJ_CEILING == 10000

DEFAULT_CRITERIA == [max_contacts |-> 10000]

(***************************************************************************)
(* Bounds of the model                                                     *)
(***************************************************************************)
MaxPending == 1

MaxAdj == 2

MaxParticipants == 2

MaxLimit == 3

(***************************************************************************)
(* The world outside the program: requesters, members, group handles       *)
(***************************************************************************)
Users == {1, 2}

NoCriteria == [absent |-> TRUE]

\* telethon User objects: username / phone are "" when the account has none
Members ==
    { [id |-> 1, deleted |-> FALSE, bot |-> FALSE, username |-> "alice", phone |-> ""],
      [id |-> 2, deleted |-> FALSE, bot |-> FALSE, username |-> "", phone |-> "79001112233"],
      [id |-> 3, deleted |-> TRUE, bot |-> FALSE, username |-> "", phone |-> ""],
      [id |-> 4, deleted |-> FALSE, bot |-> TRUE, username |-> "helper_bot", phone |-> ""] }

MemberById(i) == CHOOSE m \in Members : m.id = i

\* member lists without repetition, of length n
RECURSIVE ListsOfLen(_)
ListsOfLen(n) ==
    IF n = 0 THEN {<<>>}
    ELSE UNION { { Append(l, m) : m \in { x \in Members : \A i \in 1..Len(l) : l[i] # x } } :
                 l \in ListsOfLen(n - 1) }

ParticipantLists == UNION { ListsOfLen(n) : n \in 0..MaxParticipants }

Repeat(x, n) == [i \in 1..n |-> x]

Min(a, b) == IF a < b THEN a ELSE b

RECURSIVE Flatten(_)
Flatten(ss) == IF ss = <<>> THEN <<>> ELSE Head(ss) \o Flatten(Tail(ss))

RECURSIVE SumLens(_)
SumLens(ss) == IF ss = <<>> THEN 0 ELSE Len(Head(ss)) + SumLens(Tail(ss))

(***************************************************************************)
(* user_data, get_user_criteria, update_user_criteria                      *)
(***************************************************************************)
\* the map after the call; the returned dict is the entry of the map itself
get_user_criteria(ud, user_id) ==
    IF ud[user_id] = NoCriteria THEN [ud EXCEPT ![user_id] = DEFAULT_CRITERIA] ELSE ud

update_user_criteria(ud, user_id, key, value) ==
    [get_user_criteria(ud, user_id) EXCEPT ![user_id][key] = value]

(***************************************************************************)
(* TelegramParser.parse_group                                              *)
(*                                                                         *)
(* env is what the messaging client answers during one call:               *)
(*   resolve      how get_entity / GetFullChannelRequest / the lookup of   *)
(*                the linked chat turn out                                 *)
(*   fetch_ok     whether get_participants returns                         *)
(*   participants the list get_participants returns                        *)
(*   fail_at      0, or the position of the member whose processing raises *)
(***************************************************************************)
ResolveKinds == {"lookup_error", "group", "channel_unlinked", "channel_full_error",
                 "channel_linked_error", "channel_linked"}

ChannelKinds == {"channel_unlinked", "channel_full_error", "channel_linked_error",
                 "channel_linked"}

ResolvedNoReturn(env) == env.resolve \in {"group", "channel_linked", "channel_unlinked"}

\* the entity whose participants are requested exists (lines 150-171)
Resolved(env) == env.resolve \in {"group", "channel_linked"}

LimitedNoSlice(participants, max_contacts) == participants

\* lines 177-179
Limited(participants, max_contacts) ==
    IF Len(participants) > max_contacts
    THEN SubSeq(participants, 1, max_contacts)
    ELSE participants

SkippedNever(user) == FALSE

\* lines 187-189
Skipped(user) == user.deleted

\* lines 194-201 (first_name and last_name are carried along unchanged and left out)
MakeContact(user, group_link) ==
    [id |-> user.id,
     username |-> IF user.username # "" THEN "@" \o user.username ELSE "",
     phone |-> IF user.phone # "" THEN "+" \o user.phone ELSE "",
     group |-> group_link]

\* the contacts list after the first n participants went through the loop body
RECURSIVE Collect(_, _, _)
Collect(participants, group_link, n) ==
    IF n = 0 THEN <<>>
    ELSE LET rest == Collect(participants, group_link, n - 1)
             user == participants[n]
         IN  IF Skipped(user) THEN rest ELSE Append(rest, MakeContact(user, group_link))

parse_group(group_link, max_contacts, env) ==
    IF ~Resolved(env) THEN <<>>
    ELSE IF ~env.fetch_ok THEN <<>>
    ELSE LET participants == Limited(env.participants, max_contacts)
             n == IF env.fail_at \in 1..Len(participants)
                  THEN env.fail_at - 1
                  ELSE Len(participants)
         IN  Collect(participants, group_link, n)

\* the messaging-client calls one parse_group makes
ClientOps(env) ==
    {"get_entity"}
      \cup (IF env.resolve \in ChannelKinds THEN {"GetFullChannelRequest"} ELSE {})
      \cup (IF Resolved(env) THEN {"get_participants"} ELSE {})

(***************************************************************************)
(* What the messaging client can answer, per group handle                  *)
(***************************************************************************)
Handles == {"@a", "@b", "@gone", ""}

\* group lists requesters ask for: short ones, one at the maximum, one above it
GroupLists ==
    { <<"@a">>, <<"@a", "@b">>, <<"@gone", "@a">>,
      Repeat("@gone", MAX_GROUPS_PER_RUN), Repeat("@gone", MAX_GROUPS_PER_RUN + 1) }

LookupError == [resolve |-> "lookup_error", fetch_ok |-> FALSE, participants |-> <<>>, fail_at |-> 0]

AllEnvs ==
    { [resolve |-> k, fetch_ok |-> FALSE, participants |-> <<>>, fail_at |-> 0] :
        k \in ResolveKinds \ {"channel_unlinked"} }
    \cup { [resolve |-> "channel_unlinked", fetch_ok |-> TRUE, participants |-> p, fail_at |-> 0] :
             p \in ParticipantLists }
    \cup UNION { { [resolve |-> k, fetch_ok |-> TRUE, participants |-> p, fail_at |-> f] :
                     k \in {"group", "channel_linked"}, f \in 0..Len(p) } :
                 p \in ParticipantLists }

\* every answer is possible for a handle that exists; "@gone" and the empty
\* handle name nothing, so the lookup fails
RunWorld == [h \in Handles |-> IF h \in {"@gone", ""} THEN {LookupError} ELSE AllEnvs]

\* one fixed world: "@a" is a group of three members, "@b" a channel without
\* a discussion group
BotWorld ==
    [h \in Handles |->
        IF h = "@a"
        THEN { [resolve |-> "group", fetch_ok |-> TRUE,
                participants |-> << MemberById(3), MemberById(1), MemberById(4) >>,
                fail_at |-> 0] }
        ELSE IF h = "@b"
        THEN { [resolve |-> "channel_unlinked", fetch_ok |-> TRUE,
                participants |-> << MemberById(2) >>, fail_at |-> 0] }
        ELSE {LookupError}]

(***************************************************************************)
(* GoogleSheetsManager.write_contacts / write_stats                        *)
(* io is what the spreadsheet does with the append: "ok" or "throws"       *)
(***************************************************************************)
\* lines 88-97 (names and the timestamp left out)
Row(contact) == << contact.id, contact.username, contact.phone, contact.group, 0, "", "" >>

Rows(contacts) == [i \in 1..Len(contacts) |-> Row(contacts[i])]

write_contacts_unguarded(contacts, io) ==
    IF contacts = <<>>
    THEN [called |-> <<>>, persisted |-> <<>>, raised |-> FALSE]
    ELSE [called |-> << Rows(contacts) >>,
          persisted |-> IF io = "ok" THEN Rows(contacts) ELSE <<>>,
          raised |-> io = "throws"]

\* called: the rows of each append the call set out to make; raised: whether
\* the call lets an exception out (lines 84, 101-102: it never does)
write_contacts(contacts, io) ==
    IF contacts = <<>>
    THEN [called |-> <<>>, persisted |-> <<>>, raised |-> FALSE]
    ELSE [called |-> << Rows(contacts) >>,
          persisted |-> IF io = "ok" THEN Rows(contacts) ELSE <<>>,
          raised |-> FALSE]

write_stats(stats, io) ==
    [called |-> << stats >>,
     persisted |-> IF io = "ok" THEN << stats >> ELSE <<>>,
     raised |-> FALSE]

CountUsername(contacts) == Cardinality({ i \in 1..Len(contacts) : contacts[i].username # "" })

CountPhone(contacts) == Cardinality({ i \in 1..Len(contacts) : contacts[i].phone # "" })

StatsAllUsernames(groups, all_contacts) ==
    [groups_parsed |-> Len(groups),
     total_contacts |-> Len(all_contacts),
     with_username |-> Len(all_contacts),
     with_phone |-> CountPhone(all_contacts)]

\* lines 352-358 and 363-371: the same four counts go to the stats sheet and
\* into the summary text (duration left out)
Stats(groups, all_contacts) ==
    [groups_parsed |-> Len(groups),
     total_contacts |-> Len(all_contacts),
     with_username |-> CountUsername(all_contacts),
     with_phone |-> CountPhone(all_contacts)]

(***************************************************************************)
(* The state of one do_parsing call                                        *)
(***************************************************************************)
NoCall == [called |-> FALSE, env |-> LookupError, contacts |-> <<>>]

\* groups, all_contacts: the locals of do_parsing; idx: groups finished;
\* returned, limits: what parse_group returned / was given, per group;
\* start_limit: criteria['max_contacts'] right after line 321;
\* ops: messaging-client calls made; last: the latest parse_group call;
\* contacts_writes, stats_writes: the write calls made; persisted,
\* stats_persisted: what the sheets took from this run
NoRun ==
    [user |-> 0, groups |-> <<>>, idx |-> 0, all_contacts |-> <<>>, returned |-> <<>>,
     limits |-> <<>>, start_limit |-> 0, ops |-> {}, last |-> NoCall,
     contacts_writes |-> <<>>, stats_writes |-> <<>>, persisted |-> <<>>,
     stats_persisted |-> <<>>, sheet_io |-> "none", raised_in |-> "none",
     outcome |-> "none"]

do_parsing_except_flush(r, where) ==
    [r EXCEPT !.outcome = "failure", !.raised_in = where,
              !.contacts_writes = write_contacts(r.all_contacts, "ok").called,
              !.persisted = write_contacts(r.all_contacts, "ok").persisted]

\* lines 381-387: the handler only reports; the report of line 387 is its last
\* call and is recorded as sent
do_parsing_except(r, where) == [r EXCEPT !.outcome = "failure", !.raised_in = where]

\* the text the requester sees when the call ends
ReplyFor(r) ==
    IF r.outcome = "summary"
    THEN [kind |-> "summary"] @@ Stats(r.groups, r.all_contacts)
    ELSE [kind |-> r.outcome]

(***************************************************************************)
(* The update dispatcher (main, lines 400-409): the application is built   *)
(* without concurrent updates and the handlers are registered blocking, so *)
(* an update is handed to its handler only after the handler of the        *)
(* previous update has returned.                                           *)
(***************************************************************************)
DispatcherFreeConcurrent == TRUE

DispatcherFree == pc = "idle"

UpdateKinds == {"parse", "go", "adj"}

\* an update arrives and waits in the queue
Receive(u, kind) ==
    /\ Len(update_queue) < MaxPending
    /\ update_queue' = Append(update_queue, [user |-> u, kind |-> kind])
    /\ UNCHANGED <<user_data, parser_client, reply, pc, run, pg_call, pg_result>>

(***************************************************************************)
(* parse_command                                                           *)
(***************************************************************************)
\* context.args, tokenised as line 250 does
ParseArgs ==
    { [has_args |-> FALSE, groups |-> <<>>] }
      \cup { [has_args |-> TRUE, groups |-> g] : g \in GroupLists \cup {<<>>} }

parse_command(u, args) ==
    IF ~args.has_args
    THEN /\ reply' = [kind |-> "usage"]
         /\ UNCHANGED user_data
    ELSE IF Len(args.groups) > MAX_GROUPS_PER_RUN
    THEN /\ reply' = [kind |-> "max_groups"]
         /\ UNCHANGED user_data
    ELSE /\ user_data' = get_user_criteria(user_data, u)
         /\ reply' = [kind |-> "settings", max_contacts |-> user_data'[u].max_contacts]

ParseCommand ==
    /\ update_queue # <<>>
    /\ Head(update_queue).kind = "parse"
    /\ DispatcherFree
    /\ \E args \in ParseArgs : parse_command(Head(update_queue).user, args)
    /\ update_queue' = Tail(update_queue)
    /\ UNCHANGED <<parser_client, pc, run, pg_call, pg_result>>

(***************************************************************************)
(* button_callback                                                         *)
(***************************************************************************)
NewValStrict(cur) == IF cur > ADJ_CEILING THEN ADJ_FLOOR ELSE cur + ADJ_STEP

\* line 280
NewVal(cur) == IF cur >= ADJ_CEILING THEN ADJ_FLOOR ELSE cur + ADJ_STEP

\* the "adj" branch, lines 278-295
ButtonAdj ==
    /\ update_queue # <<>>
    /\ Head(update_queue).kind = "adj"
    /\ DispatcherFree
    /\ LET u == Head(update_queue).user
           criteria == get_user_criteria(user_data, u)[u]
           new_val == NewVal(criteria.max_contacts)
       IN  /\ user_data' = update_user_criteria(user_data, u, "max_contacts", new_val)
           /\ reply' = [kind |-> "settings", max_contacts |-> new_val]
    /\ update_queue' = Tail(update_queue)
    /\ UNCHANGED <<parser_client, pc, run, pg_call, pg_result>>

\* the text after "go:" is written as the sequence of its comma-separated
\* fields; str.split(',') gives one empty field for the empty text (line 276)
SplitGroups(fields) == IF fields = <<>> THEN << "" >> ELSE fields

\* callback data comes from the client: it can be the data of any keyboard
\* the bot ever sent, or any other text
GoData == GroupLists \cup {<<>>}

\* the "go:" branch, lines 274-277, up to the call of do_parsing
ButtonGo ==
    /\ update_queue # <<>>
    /\ Head(update_queue).kind = "go"
    /\ DispatcherFree
    /\ pc = "idle"
    /\ \E data \in GoData :
         run' = [NoRun EXCEPT !.user = Head(update_queue).user,
                              !.groups = SplitGroups(data),
                              !.outcome = "running"]
    /\ pc' = "start"
    /\ update_queue' = Tail(update_queue)
    /\ UNCHANGED <<user_data, parser_client, reply, pg_call, pg_result>>

(***************************************************************************)
(* do_parsing                                                              *)
(* Every edit_message_text can raise; the one at line 305 is outside the   *)
(* try block.                                                              *)
(***************************************************************************)
\* lines 305-323: first report, reconnect if needed, criteria looked up
DoParsingStart ==
    /\ pc = "start"
    /\ \E first_raises \in BOOLEAN, connect_ok \in BOOLEAN, report_raises \in BOOLEAN :
         LET need == parser_client # "connected"
             r1 == IF need THEN [run EXCEPT !.ops = @ \cup {"connect"}] ELSE run
         IN  IF first_raises
             THEN /\ run' = [run EXCEPT !.outcome = "uncaught", !.raised_in = "first"]
                  /\ pc' = "idle"
                  /\ UNCHANGED <<user_data, parser_client, reply>>
             ELSE IF need /\ ~connect_ok
             THEN /\ run' = IF report_raises
                            THEN do_parsing_except(r1, "connect")
                            ELSE [r1 EXCEPT !.outcome = "connect_error"]
                  /\ parser_client' = "disconnected"
                  /\ reply' = ReplyFor(run')
                  /\ pc' = "idle"
                  /\ UNCHANGED user_data
             ELSE /\ user_data' = get_user_criteria(user_data, run.user)
                  /\ run' = [r1 EXCEPT !.start_limit = user_data'[run.user].max_contacts]
                  /\ parser_client' = "connected"
                  /\ reply' = [kind |-> "connecting"]
                  /\ pc' = "loop"
    /\ UNCHANGED <<update_queue, pg_call, pg_result>>

\* lines 325-345: one pass of the loop, up to the delay before the next group;
\* criteria is the requester's entry of user_data itself, read at line 332
DoParsingGroup(World) ==
    /\ pc = "loop"
    /\ \E progress_raises \in BOOLEAN, result_raises \in BOOLEAN,
          env \in World[run.groups[run.idx + 1]] :
         LET idx == run.idx + 1
             group == run.groups[idx]
             max_contacts == user_data[run.user].max_contacts
             contacts == parse_group(group, max_contacts, env)
             r1 == [run EXCEPT !.idx = idx,
                               !.all_contacts = @ \o contacts,
                               !.returned = Append(@, contacts),
                               !.limits = Append(@, max_contacts),
                               !.ops = @ \cup ClientOps(env),
                               !.last = [called |-> TRUE, env |-> env, contacts |-> contacts]]
         IN  IF progress_raises
             THEN /\ run' = do_parsing_except(run, "loop")
                  /\ reply' = ReplyFor(run')
                  /\ pc' = "idle"
             ELSE IF result_raises
             THEN /\ run' = do_parsing_except(r1, "loop")
                  /\ reply' = ReplyFor(run')
                  /\ pc' = "idle"
             ELSE /\ run' = r1
                  /\ reply' = [kind |-> "progress", group |-> group, found |-> Len(contacts),
                               total |-> Len(r1.all_contacts)]
                  /\ pc' = IF idx < Len(run.groups) THEN "loop" ELSE "flush"
    /\ UNCHANGED <<user_data, update_queue, parser_client, pg_call, pg_result>>

\* lines 347-373: flush, stats, summary
DoParsingFinish ==
    /\ pc = "flush"
    /\ \E saving_raises \in BOOLEAN, summary_raises \in BOOLEAN,
          contacts_io \in {"ok", "throws"}, stats_io \in {"ok", "throws"} :
         LET flush == run.all_contacts # <<>>
             wc == write_contacts(run.all_contacts, contacts_io)
             r1 == [run EXCEPT !.contacts_writes = @ \o wc.called,
                               !.persisted = @ \o wc.persisted,
                               !.sheet_io = contacts_io]
             ws == write_stats(Stats(run.groups, run.all_contacts), stats_io)
             r2 == [r1 EXCEPT !.stats_writes = @ \o ws.called,
                              !.stats_persisted = @ \o ws.persisted]
             r3 == IF flush THEN r2 ELSE run
         IN  run' = IF flush /\ saving_raises THEN do_parsing_except(run, "flush")
                    ELSE IF flush /\ wc.raised THEN do_parsing_except(r1, "sheets")
                    ELSE IF flush /\ ws.raised THEN do_parsing_except(r2, "sheets")
                    ELSE IF summary_raises THEN do_parsing_except(r3, "summary")
                    ELSE [r3 EXCEPT !.outcome = "summary"]
    /\ reply' = ReplyFor(run')
    /\ pc' = "idle"
    /\ UNCHANGED <<user_data, update_queue, parser_client, pg_call, pg_result>>

(***************************************************************************)
(* One call of parse_group on its own                                      *)
(***************************************************************************)
CallParseGroup ==
    /\ ~pg_result.done
    /\ pg_result' = [done |-> TRUE,
                     contacts |-> parse_group(pg_call.group, pg_call.max_contacts, pg_call.env)]
    /\ UNCHANGED <<user_data, update_queue, parser_client, reply, pc, run, pg_call>>

NoPG == [group |-> "", max_contacts |-> 0, env |-> LookupError]

(***************************************************************************)
(* Specifications                                                          *)
(***************************************************************************)
\* the bot after main: nothing received yet
Init ==
    /\ user_data = [u \in Users |-> NoCriteria]
    /\ update_queue = <<>>
    /\ parser_client = "None"
    /\ reply = [kind |-> "none"]
    /\ pc = "idle"
    /\ run = NoRun
    /\ pg_call = NoPG
    /\ pg_result = [done |-> TRUE, contacts |-> <<>>]

\* adjustments requester u has made since the bot started (fewer than a full cycle)
AdjPressed(u) ==
    IF user_data[u] = NoCriteria THEN 0
    ELSE (user_data[u].max_contacts % ADJ_CEILING) \div ADJ_STEP

AdjPending(u) ==
    Cardinality({ i \in 1..Len(update_queue) : update_queue[i] = [user |-> u, kind |-> "adj"] })

\* each requester presses the adjustment button at most MaxAdj times
ReceiveBounded(u, kind) ==
    /\ kind = "adj" => AdjPressed(u) + AdjPending(u) < MaxAdj
    /\ Receive(u, kind)

Next ==
    \/ \E u \in Users, kind \in UpdateKinds : ReceiveBounded(u, kind)
    \/ ParseCommand
    \/ ButtonAdj
    \/ ButtonGo
    \/ DoParsingStart
    \/ DoParsingGroup(BotWorld)
    \/ DoParsingFinish

Spec == Init /\ [][Next]_vars

\* the bot when nobody starts a run: parse commands and adjustments only
NextAdj ==
    \/ \E u \in Users, kind \in {"parse", "adj"} : Receive(u, kind)
    \/ ParseCommand
    \/ ButtonAdj

SpecAdj == Init /\ [][NextAdj]_vars

\* one do_parsing call of requester 1, in every world
InitRun ==
    /\ user_data \in { [u \in Users |-> IF u = 1 THEN c ELSE NoCriteria] :
                         c \in {NoCriteria, DEFAULT_CRITERIA, [max_contacts |-> ADJ_FLOOR]} }
    /\ update_queue = <<>>
    /\ parser_client \in {"None", "connected", "disconnected"}
    /\ reply = [kind |-> "none"]
    /\ pc = "start"
    /\ run \in { [NoRun EXCEPT !.user = 1, !.groups = SplitGroups(data), !.outcome = "running"] :
                   data \in GoData }
    /\ pg_call = NoPG
    /\ pg_result = [done |-> TRUE, contacts |-> <<>>]

NextRun ==
    \/ DoParsingStart
    \/ DoParsingGroup(RunWorld)
    \/ DoParsingFinish

SpecRun == InitRun /\ [][NextRun]_vars

\* one parse_group call, for every answer of the client and every limit
InitPG ==
    /\ user_data = [u \in Users |-> NoCriteria]
    /\ update_queue = <<>>
    /\ parser_client = "connected"
    /\ reply = [kind |-> "none"]
    /\ pc = "idle"
    /\ run = NoRun
    /\ pg_call \in { [group |-> "@a", max_contacts |-> l, env |-> e] :
                       l \in 0..MaxLimit, e \in AllEnvs }
    /\ pg_result = [done |-> FALSE, contacts |-> <<>>]

NextPG == CallParseGroup

SpecPG == InitPG /\ [][NextPG]_vars

(***************************************************************************)
(* Properties                                                              *)
(***************************************************************************)
Passing(participants) == SelectSeq(participants, LAMBDA u : ~u.deleted)

Ids(contacts) == [i \in 1..Len(contacts) |-> contacts[i].id]

MemberIds(members) == [i \in 1..Len(members) |-> members[i].id]

ResolutionError(env) ==
    env.resolve \in {"lookup_error", "channel_unlinked", "channel_full_error",
                     "channel_linked_error"}

FetchError(env) == ~ResolutionError(env) /\ ~env.fetch_ok

ProcessingError(env, limit) ==
    /\ ~ResolutionError(env)
    /\ env.fetch_ok
    /\ env.fail_at \in 1..Min(Len(env.participants), limit)

Succeeds(env, limit) ==
    ~ResolutionError(env) /\ env.fetch_ok /\ ~ProcessingError(env, limit)

\* C1: a run over more groups than MAX_GROUPS_PER_RUN makes no call to the
\* messaging client (connect, get_entity, GetFullChannelRequest,
\* get_participants), whichever handler started it.
C1_NoClientCallAboveMax ==
    Len(run.groups) > MAX_GROUPS_PER_RUN => run.ops = {}

\* C3: no contact parse_group returns, and no row handed to write_contacts,
\* belongs to a member whose deleted flag is set.
C3_NoDeletedContact ==
    /\ \A i \in 1..Len(run.returned) : \A j \in 1..Len(run.returned[i]) :
         ~MemberById(run.returned[i][j].id).deleted
    /\ \A w \in 1..Len(run.contacts_writes) : \A j \in 1..Len(run.contacts_writes[w]) :
         ~MemberById(run.contacts_writes[w][j][1]).deleted

\* C3 witness: a finished run wrote contacts of a group whose participant
\* list held a deleted member next to a retained one.
C3_Witness ==
    /\ run.outcome = "summary"
    /\ run.contacts_writes # <<>>
    /\ run.last.called
    /\ Succeeds(run.last.env, run.limits[Len(run.limits)])
    /\ run.last.contacts # <<>>
    /\ \E i \in 1..Len(run.last.env.participants) : run.last.env.participants[i].deleted

\* C4 as stated: parse_group returns at most limit contacts, and exactly limit
\* of them whenever at least limit members pass the filters.
C4_ExactlyLimitWhenEnoughPass ==
    (pg_result.done /\ Succeeds(pg_call.env, pg_call.max_contacts)) =>
        /\ Len(pg_result.contacts) <= pg_call.max_contacts
        /\ Len(Passing(pg_call.env.participants)) >= pg_call.max_contacts
             => Len(pg_result.contacts) = pg_call.max_contacts

\* C4 amended: parse_group returns at most limit contacts; the limit cuts the
\* fetched list to its first limit participants before filtering, so the
\* contacts returned are those of the non-deleted members among the first
\* min(limit, n) participants, in order.
C4_AtMostLimitSlicedFirst ==
    pg_result.done =>
        /\ Len(pg_result.contacts) <= pg_call.max_contacts
        /\ Succeeds(pg_call.env, pg_call.max_contacts) =>
             Ids(pg_result.contacts) =
               MemberIds(Passing(SubSeq(pg_call.env.participants, 1,
                                        Min(pg_call.max_contacts,
                                            Len(pg_call.env.participants)))))

\* C4 witness: enough members pass the filter, yet a deleted member among the
\* first limit participants used up the limit.
C4_Witness ==
    /\ pg_result.done
    /\ Succeeds(pg_call.env, pg_call.max_contacts)
    /\ pg_call.max_contacts > 0
    /\ Len(Passing(pg_call.env.participants)) >= pg_call.max_contacts
    /\ Len(pg_result.contacts) < pg_call.max_contacts

AdjValues == { k * ADJ_STEP : k \in (ADJ_FLOOR \div ADJ_STEP)..(ADJ_CEILING \div ADJ_STEP) }

CurrentMax(u) ==
    IF user_data[u] = NoCriteria THEN DEFAULT_CRITERIA.max_contacts
    ELSE user_data[u].max_contacts

\* C5: every handled adjustment raises the requester's max_contacts by the
\* step while it is below the ceiling and sets it to the floor when it is at
\* the ceiling (the lazily created default included); the value is always a
\* multiple of the step between floor and ceiling.
C5_AdjCycle ==
    /\ [](\A u \in Users : user_data[u] # NoCriteria => user_data[u].max_contacts \in AdjValues)
    /\ [][ (/\ update_queue # <<>>
            /\ Head(update_queue).kind = "adj"
            /\ update_queue' = Tail(update_queue))
           => LET u == Head(update_queue).user
                  cur == CurrentMax(u)
              IN  /\ user_data'[u] # NoCriteria
                  /\ cur < ADJ_CEILING =>
                       /\ user_data'[u].max_contacts = cur + ADJ_STEP
                       /\ user_data'[u].max_contacts > cur
                  /\ cur = ADJ_CEILING => user_data'[u].max_contacts = ADJ_FLOOR ]_vars

\* C5 witness: requester 1 has stepped up to one step below the ceiling.
C5_Witness ==
    /\ user_data[1] # NoCriteria
    /\ user_data[1].max_contacts = ADJ_CEILING - ADJ_STEP

\* C6 as stated: on a resolution error, a fetch error or an error while
\* members are processed, parse_group returns an empty sequence.
C6_EmptyOnAnyError ==
    (run.last.called /\ ~Succeeds(run.last.env, run.limits[Len(run.limits)]))
        => run.last.contacts = <<>>

\* C6 amended: on a resolution or fetch error parse_group returns an empty
\* sequence; on an error while members are processed it returns the contacts
\* collected before the failing member; in every case the group adds exactly
\* the returned contacts to the run total and the loop goes on to the next
\* group (or to the flush after the last one).
C6_EmptyOnResolveOrFetchError ==
    run.last.called =>
        LET env == run.last.env
            limit == run.limits[Len(run.limits)]
        IN  /\ (ResolutionError(env) \/ FetchError(env)) => run.last.contacts = <<>>
            /\ ProcessingError(env, limit) =>
                 Ids(run.last.contacts) =
                   MemberIds(Passing(SubSeq(env.participants, 1, env.fail_at - 1)))
            /\ run.returned[Len(run.returned)] = run.last.contacts
            /\ Len(run.all_contacts) =
                 SumLens(SubSeq(run.returned, 1, Len(run.returned) - 1)) + Len(run.last.contacts)
            /\ (run.outcome = "running" /\ ~Succeeds(env, limit)) =>
                 /\ pc \in {"loop", "flush"}
                 /\ pc = "loop" <=> run.idx < Len(run.groups)

\* C6 witness: processing failed part-way, the members before the failure
\* were returned, and the loop went on to the next group.
C6_Witness ==
    /\ run.last.called
    /\ ProcessingError(run.last.env, run.limits[Len(run.limits)])
    /\ run.last.contacts # <<>>
    /\ pc = "loop"

\* C7: a run that ends with the summary reports groups = number of groups
\* requested, total = sum of the contacts returned per group, with_handle =
\* number of collected contacts with a handle (both sub-counts at most the
\* total); with total > 0 exactly one contacts write is made, with total rows
\* in group order; with total = 0 no contacts or stats write is made.
C7_Summary ==
    run.outcome = "summary" =>
        LET total == SumLens(run.returned)
            flat == Flatten(run.returned)
        IN  /\ reply.kind = "summary"
            /\ reply.groups_parsed = Len(run.groups)
            /\ reply.total_contacts = total
            /\ reply.with_username = Cardinality({ i \in 1..Len(flat) : flat[i].username # "" })
            /\ reply.with_username <= total
            /\ reply.with_phone <= total
            /\ total > 0 =>
                 /\ Len(run.contacts_writes) = 1
                 /\ Len(run.contacts_writes[1]) = total
                 /\ \A j \in 1..total :
                      /\ run.contacts_writes[1][j][1] = flat[j].id
                      /\ run.contacts_writes[1][j][4] = flat[j].group
            /\ total = 0 => (run.contacts_writes = <<>> /\ run.stats_writes = <<>>)

\* C7 witness: two groups, the first gave contacts (one without a handle), the
\* second gave none, and the summary was reported after one write.
C7_Witness ==
    /\ run.outcome = "summary"
    /\ Len(run.groups) = 2
    /\ Len(run.returned[1]) = 2
    /\ \E j \in 1..2 : run.returned[1][j].username = ""
    /\ run.returned[2] = <<>>
    /\ Len(run.contacts_writes) = 1

\* C8: when the contacts write throws, the run does not take the failure
\* path because of it: unless the summary report itself raises, the run ends
\* with the summary of its in-memory counts, no failure message, and no row
\* of the run in the contacts sheet.
C8_WriteFailureSwallowed ==
    (/\ pc = "idle"
     /\ run.sheet_io = "throws"
     /\ run.contacts_writes # <<>>
     /\ run.raised_in # "summary") =>
        /\ run.outcome = "summary"
        /\ reply.kind = "summary"
        /\ reply.groups_parsed = Len(run.groups)
        /\ reply.total_contacts = Len(run.all_contacts)
        /\ reply.total_contacts > 0
        /\ run.persisted = <<>>

\* C8 witness: the write threw and the summary was reported.
C8_Witness ==
    /\ run.sheet_io = "throws"
    /\ run.contacts_writes # <<>>
    /\ run.outcome = "summary"
    /\ reply.kind = "summary"

C10_LimitFixedForRun ==
    \A i \in 1..Len(run.limits) : run.limits[i] = run.start_limit

\* C10 witness: the run is suspended between two groups while an adjustment
\* of the same requester has arrived.
C10_Witness ==
    /\ pc = "loop"
    /\ run.idx >= 1
    /\ run.idx < Len(run.groups)
    /\ \E i \in 1..Len(update_queue) : update_queue[i] = [user |-> run.user, kind |-> "adj"]

====
